---- MODULE Spec2Model ----
(***************************************************************************)
(* Model of python/ftd.py: one process run of main(), which sends one      *)
(* action POST (device onboarding or deletion), extracts the transaction   *)
(* polling URL from the acknowledgement and runs poll_transaction_status   *)
(* until a terminal status, the attempt budget, or a raised exception.     *)
(* The copy of the poller in python/poll_service.py is modelled next to    *)
(* it and replays the responses of a finished run (EquivSpec).             *)
(*                                                                         *)
(* Python values: an Optional value is a sequence of length at most one    *)
(* (None is <<>>, a value v is <<v>>); a dict is a record; the text of an  *)
(* HTTP response is the sequence of <<key, value>> pairs on the wire, and  *)
(* response.json() builds the dict from it.                                *)
(***************************************************************************)
EXTENDS Integers, Sequences, FiniteSets, TLC

(* ---------------- bounds of the explored inputs ---------------- *)

\* largest --max-attempts explored (the smallest is -1: argparse type=int)
MaxAttempts == 3

\* largest --delay explored (the smallest is -1: argparse type=int)
MaxDelay == 1

(* ---------------- Python values ---------------- *)

None == <<>>

Some(v) == <<v>>

\* dict.get(key): the value, or None when the key is absent
Get(d, key) == IF key \in DOMAIN d THEN Some(d[key]) ELSE None

\* only the empty string is falsy: a missing value passes
Not_emptyOnly(v) == v = Some("")

\* Python truthiness of an Optional[str]: None and '' are falsy
Not(v) == v = None \/ v = Some("")

\* response.json(): the dict of the wire pairs (a later pair of a key wins)
Json(text) ==
    LET keys == {text[i][1] : i \in DOMAIN text}
        last(k) == CHOOSE i \in DOMAIN text :
                      /\ text[i][1] = k
                      /\ \A j \in DOMAIN text : text[j][1] = k => j <= i
    IN  [k \in keys |-> text[last(k)][2]]

(* ---------------- what the remote API may answer ---------------- *)

\* status codes the server may answer the action POST with
AckCodes == {200, 202, 400}

\* bodies the server may answer the action POST with
AckTexts ==
    { << <<"transactionUid", "tx1">> >> } \cup
    { << <<"transactionUid", "tx1">>, <<"transactionPollingUrl", u>> >> :
        u \in {"", "https://x/status/1", "https://x/status/2"} }

\* status codes the server may answer a poll GET with
PollCodes == {200, 202, 500}

\* bodies the server may answer a poll GET with (one of them names another
\* polling URL)
PollTexts ==
    { << <<"transactionUid", "tx1">> >> } \cup
    { << <<"transactionUid", "tx1">>, <<"cdoTransactionStatus", s>> >> :
        s \in {"RUNNING", "DONE", "ERROR"} } \cup
    { << <<"transactionPollingUrl", "https://x/status/3">>,
         <<"cdoTransactionStatus", "RUNNING">> >> }

\* a requests call that raised instead of returning a response
ConnectionFailed == [raised |-> "RequestException"]

HttpResponse(code, text) == [status_code |-> code, text |-> text]

(* ---------------- command line (parse_arguments) ---------------- *)

Operations == {None, Some("onboard"), Some("delete")}

AdminPasswords == {"", "pw"}

Args ==
    [operation : Operations,
     url : {"https://edge.staging.cdo.cisco.com"},
     token : {"tok"},
     device_name : {"fw1"},
     serial_number : {"ABC123"},
     policy_uuid : {"pol-1"},
     admin_password : AdminPasswords,
     device_uuid : {"dev-1"},
     max_attempts : (-1)..MaxAttempts,
     delay : (-1)..MaxDelay]

(* ---------------- state ---------------- *)

VARIABLES
    args,          \* the parsed command line
    pc,            \* position of the process
    posts,         \* the POST requests sent so far
    ack,           \* the HTTP response to the POST, None before it
    response,      \* main's `response`: the parsed acknowledgement, or None
    polling_url,   \* main's `polling_url`
    max_attempts,  \* poll_transaction_status' parameter
    delay_seconds, \* poll_transaction_status' parameter
    headers,       \* poll_transaction_status' `headers`
    attempt,       \* the loop variable of `for attempt in range(max_attempts)`
    gets,          \* the GET requests sent so far
    responses,     \* what each GET produced: an HTTP response or ConnectionFailed
    current_status,\* poll_transaction_status' `current_status`
    sleeps,        \* the arguments of the time.sleep calls made so far
    stdout,        \* the lines printed so far
    exc,           \* the exception raised and in flight or handled, None if none
    poll_outcome,  \* how poll_transaction_status ended: none, returned, timeout, raised
    final_status,  \* main's `final_status`
    exit_code,     \* the process exit code, -1 while the process runs
    svc            \* the state of poll_service.py's poll_transaction_status

vars == <<args, pc, posts, ack, response, polling_url, max_attempts,
          delay_seconds, headers, attempt, gets, responses, current_status,
          sleeps, stdout, exc, poll_outcome, final_status, exit_code, svc>>

pollVars == <<max_attempts, delay_seconds, headers, attempt, gets, responses,
              current_status, sleeps, poll_outcome, final_status>>

\* poll_service.py's poll_transaction_status before it is called
SvcIdle ==
    [pc |-> "idle", polling_url |-> None, headers |-> None, max_attempts |-> 0,
     delay_seconds |-> 0, attempt |-> 0, gets |-> <<>>, responses |-> <<>>,
     sleeps |-> <<>>, stdout |-> <<>>, outcome |-> "none", result |-> None,
     exc |-> None]

Init ==
    /\ args \in Args
    /\ pc = "main"
    /\ posts = <<>>
    /\ ack = None
    /\ response = None
    /\ polling_url = None
    /\ max_attempts = 0
    /\ delay_seconds = 0
    /\ headers = None
    /\ attempt = 0
    /\ gets = <<>>
    /\ responses = <<>>
    /\ current_status = None
    /\ sleeps = <<>>
    /\ stdout = <<>>
    /\ exc = None
    /\ poll_outcome = "none"
    /\ final_status = None
    /\ exit_code = -1
    /\ svc = SvcIdle

(* ---------------- exceptions ---------------- *)

\* an exception: its type and the parts its message is formatted from (the
\* fixed words, the response text and the status code, None where not used)
CDOError(words, text, code) == [type |-> "CDOError", words |-> words, text |-> text, code |-> code]

RequestException == [type |-> "RequestException", words |-> "connection failed", text |-> None, code |-> None]

ValueError(words) == [type |-> "ValueError", words |-> words, text |-> None, code |-> None]

(* ---------------- Action Invoker ---------------- *)

\* 200 is accepted as an acknowledgement too
AckRejected_not2xx(status_code) == status_code \notin {200, 202}

\* the acknowledgement check of both operations
AckRejected(status_code) == status_code # 202

\* the device name and the serial number are swapped in the payload
OnboardingRequest_swapped(base_url, token, device_name, serial_number, access_policy_uuid, admin_password) ==
    [method |-> "POST",
     url |-> <<base_url, "/api/rest/v1/inventory/devices/ftds/ztp">>,
     headers |-> [Authorization |-> <<"Bearer ", token>>,
                  ContentType |-> "application/json"],
     json |-> Some([name |-> serial_number,
                    serialNumber |-> device_name,
                    fmcAccessPolicyUid |-> access_policy_uuid,
                    licenses |-> <<"BASE">>,
                    adminPassword |-> admin_password])]

\* the request of initiate_ftd_onboarding_using_ztp
OnboardingRequest(base_url, token, device_name, serial_number, access_policy_uuid, admin_password) ==
    [method |-> "POST",
     url |-> <<base_url, "/api/rest/v1/inventory/devices/ftds/ztp">>,
     headers |-> [Authorization |-> <<"Bearer ", token>>,
                  ContentType |-> "application/json"],
     json |-> Some([name |-> device_name,
                    serialNumber |-> serial_number,
                    fmcAccessPolicyUid |-> access_policy_uuid,
                    licenses |-> <<"BASE">>,
                    adminPassword |-> admin_password])]

DeletionRequest(base_url, token, device_uuid) ==
    [method |-> "POST",
     url |-> <<base_url, "/api/rest/v1/inventory/devices/ftds/cdfmcManaged/",
               device_uuid, "/delete">>,
     headers |-> [Authorization |-> <<"Bearer ", token>>],
     json |-> None]

\* the request is sent a second time when the connection fails
Invoke_resend(req, failure, r) ==
    /\ posts' = (IF r = ConnectionFailed THEN posts \o <<req, req>> ELSE Append(posts, req))
    /\ IF r = ConnectionFailed
         THEN /\ exc' = Some(RequestException)
              /\ pc' = "except"
              /\ UNCHANGED <<ack, response>>
         ELSE /\ ack' = Some(r)
              /\ IF AckRejected(r.status_code)
                   THEN /\ exc' = Some(CDOError(failure, Some(r.text), None))
                        /\ pc' = "except"
                        /\ UNCHANGED response
                   ELSE /\ response' = Some(Json(r.text))
                        /\ pc' = "extract"
                        /\ UNCHANGED exc

\* the common shape of both operations: send req, then raise or return
\* (stdout is left to the caller)
Invoke(req, failure, r) ==
    /\ posts' = Append(posts, req)
    /\ IF r = ConnectionFailed
         THEN /\ exc' = Some(RequestException)
              /\ pc' = "except"
              /\ UNCHANGED <<ack, response>>
         ELSE /\ ack' = Some(r)
              /\ IF AckRejected(r.status_code)
                   THEN /\ exc' = Some(CDOError(failure, Some(r.text), None))
                        /\ pc' = "except"
                        /\ UNCHANGED response
                   ELSE /\ response' = Some(Json(r.text))
                        /\ pc' = "extract"
                        /\ UNCHANGED exc

AckResponses ==
    {HttpResponse(c, t) : c \in AckCodes, t \in AckTexts} \cup {ConnectionFailed}

\* main ends with exit(1) after the report
NormalExit_failure == 2 - 1

\* the exit code of a run that falls off the end of main
NormalExit == 0

\* the error paths exit like a normal end of main
ErrorExit_normal == NormalExit

\* the argument of every exit() call of main
ErrorExit == 1

\* main, no subcommand given
MainNoOperation ==
    /\ pc = "main"
    /\ args.operation = None
    /\ stdout' = Append(stdout, <<"Error: No operation specified">>)
    /\ exit_code' = ErrorExit
    /\ pc' = "exited"
    /\ UNCHANGED <<args, posts, ack, response, polling_url, exc>>
    /\ UNCHANGED pollVars
    /\ UNCHANGED svc

\* main's onboard branch: initiate_ftd_onboarding_using_ztp and the print after it
initiate_ftd_onboarding_using_ztp ==
    /\ pc = "main"
    /\ args.operation = Some("onboard")
    /\ \E r \in AckResponses :
         /\ Invoke(OnboardingRequest(args.url, args.token, args.device_name,
                                     args.serial_number, args.policy_uuid,
                                     args.admin_password),
                   "Failed to create ZTP request: ", r)
         /\ IF pc' = "extract"
              THEN stdout' = stdout \o << <<"Initiating FTD onboarding...">>,
                                          <<"Initial response: ", response'>> >>
              ELSE stdout' = Append(stdout, <<"Initiating FTD onboarding...">>)
    /\ UNCHANGED <<args, polling_url, exit_code>>
    /\ UNCHANGED pollVars
    /\ UNCHANGED svc

\* main's delete branch: delete_ftd_device and the print after it
delete_ftd_device ==
    /\ pc = "main"
    /\ args.operation = Some("delete")
    /\ \E r \in AckResponses :
         /\ Invoke(DeletionRequest(args.url, args.token, args.device_uuid),
                   "Failed to delete FTD device: ", r)
         /\ IF pc' = "extract"
              THEN stdout' = stdout \o << <<"Initiating FTD deletion...">>,
                                          <<"Initial response: ", response'>> >>
              ELSE stdout' = Append(stdout, <<"Initiating FTD deletion...">>)
    /\ UNCHANGED <<args, polling_url, exit_code>>
    /\ UNCHANGED pollVars
    /\ UNCHANGED svc

(* ---------------- main: polling-URL extraction ---------------- *)

\* the token is left out of the Authorization header
PollHeaders_noToken(token) ==
    [Authorization |-> <<"Bearer ", "">>, ContentType |-> "application/json"]

\* poll_transaction_status' `headers`
PollHeaders(token) ==
    [Authorization |-> <<"Bearer ", token>>, ContentType |-> "application/json"]

\* main, from `polling_url = response.get(...)` to the call of
\* poll_transaction_status (whose first statement builds `headers`)
ExtractPollingUrl ==
    /\ pc = "extract"
    /\ polling_url' = Get(response[1], "transactionPollingUrl")
    /\ IF Not(polling_url')
         THEN /\ exc' = Some(CDOError("No polling URL in response", None, None))
              /\ pc' = "except"
              /\ UNCHANGED <<stdout, max_attempts, delay_seconds, headers>>
         ELSE /\ stdout' = Append(stdout, <<"Starting status polling...">>)
              /\ max_attempts' = args.max_attempts
              /\ delay_seconds' = args.delay
              /\ headers' = Some(PollHeaders(args.token))
              /\ pc' = "for"
              /\ UNCHANGED exc
    /\ UNCHANGED <<args, posts, ack, response, attempt, gets, responses,
                   current_status, sleeps, poll_outcome, final_status, exit_code>>
    /\ UNCHANGED svc

(* ---------------- Status Poller ---------------- *)

\* the body runs once before the bound is tested (a do-while loop)
RangeHasNext_doWhile(i, n) == i = 0 \/ i < n

\* the loop has no bound (`while True`)
RangeHasNext_always(i, n) == TRUE

\* an off-by-one loop bound: one iteration too few
RangeHasNext_short(i, n) == i + 1 < n

\* an off-by-one loop bound: one iteration too many
RangeHasNext_inclusive(i, n) == i <= n

\* `for attempt in range(max_attempts)`: is there another iteration
RangeHasNext(i, n) == i < n

\* only 200 is accepted: a 202 poll answer is rejected
PollCodeRejected_only200(status_code) == status_code # 200

\* every answered code is accepted
PollCodeRejected_never(status_code) == FALSE

\* `response.status_code not in [200, 202]`
PollCodeRejected(status_code) == status_code \notin {200, 202}

\* ERROR is not treated as terminal
IsTerminal_doneOnly(status) == status = Some("DONE")

\* an absent status is treated as terminal
IsTerminal_orAbsent(status) == status \in {Some("DONE"), Some("ERROR"), None}

\* `current_status in ['DONE', 'ERROR']`
IsTerminal(status) == status \in {Some("DONE"), Some("ERROR")}

\* the line prints the 0-based loop variable
StatusLine_zeroBased(status, i, n) ==
    <<"Current status: ", status, " (Attempt ", i, "/", n, ")">>

\* `print(f"Current status: {current_status} (Attempt {attempt + 1}/{max_attempts})")`
StatusLine(status, i, n) ==
    <<"Current status: ", status, " (Attempt ", i + 1, "/", n, ")">>

\* time.sleep raises ValueError on a negative argument
SleepRaises(secs) == secs < 0

PollResponses ==
    {HttpResponse(c, t) : c \in PollCodes, t \in PollTexts} \cup {ConnectionFailed}

\* the loop head and `response = requests.get(polling_url, headers=headers)`
PollGet ==
    /\ pc = "for"
    /\ RangeHasNext(attempt, max_attempts)
    /\ gets' = Append(gets, [method |-> "GET", url |-> polling_url,
                             headers |-> headers[1]])
    /\ \E r \in PollResponses :
         /\ responses' = Append(responses, r)
         /\ IF r = ConnectionFailed
              THEN /\ exc' = Some(RequestException)
                   /\ poll_outcome' = "raised"
                   /\ pc' = "except"
              ELSE /\ pc' = "check"
                   /\ UNCHANGED <<exc, poll_outcome>>
    /\ UNCHANGED <<args, posts, ack, response, polling_url, max_attempts,
                   delay_seconds, headers, attempt, current_status, sleeps,
                   stdout, final_status, exit_code>>
    /\ UNCHANGED svc

\* the loop is exhausted: `return None`
PollTimeout ==
    /\ pc = "for"
    /\ ~RangeHasNext(attempt, max_attempts)
    /\ final_status' = None
    /\ poll_outcome' = "timeout"
    /\ pc' = "report"
    /\ UNCHANGED <<args, posts, ack, response, polling_url, max_attempts,
                   delay_seconds, headers, attempt, gets, responses,
                   current_status, sleeps, stdout, exc, exit_code>>
    /\ UNCHANGED svc

\* the loop body from the status-code check to the terminal decision
PollCheck ==
    /\ pc = "check"
    /\ LET r == responses[Len(responses)]
           status_data == Json(r.text)
           status == Get(status_data, "cdoTransactionStatus")
       IN  IF PollCodeRejected(r.status_code)
             THEN /\ exc' = Some(CDOError("Failed to poll status: ", Some(r.text),
                                           Some(r.status_code)))
                  /\ poll_outcome' = "raised"
                  /\ pc' = "except"
                  /\ UNCHANGED <<current_status, stdout, final_status>>
             ELSE /\ current_status' = status
                  /\ stdout' = Append(stdout, StatusLine(status, attempt, max_attempts))
                  /\ IF IsTerminal(status)
                       THEN /\ final_status' = Some(status_data)
                            /\ poll_outcome' = "returned"
                            /\ pc' = "report"
                       ELSE /\ pc' = "sleep"
                            /\ UNCHANGED <<final_status, poll_outcome>>
                  /\ UNCHANGED exc
    /\ UNCHANGED <<args, posts, ack, response, polling_url, max_attempts,
                   delay_seconds, headers, attempt, gets, responses, sleeps,
                   exit_code>>
    /\ UNCHANGED svc

\* `time.sleep(delay_seconds)` and the step to the next element of the range
PollSleep ==
    /\ pc = "sleep"
    /\ IF SleepRaises(delay_seconds)
         THEN /\ exc' = Some(ValueError("sleep length must be non-negative"))
              /\ poll_outcome' = "raised"
              /\ pc' = "except"
              /\ UNCHANGED <<sleeps, attempt>>
         ELSE /\ sleeps' = Append(sleeps, delay_seconds)
              /\ attempt' = attempt + 1
              /\ pc' = "for"
              /\ UNCHANGED <<exc, poll_outcome>>
    /\ UNCHANGED <<args, posts, ack, response, polling_url, max_attempts,
                   delay_seconds, headers, gets, responses, current_status,
                   stdout, final_status, exit_code>>
    /\ UNCHANGED svc

(* ---------------- main: report and exception handlers ---------------- *)

\* the RequestException clause is missing: the catch-all takes its place
Handler_noNetworkClause(e) ==
    IF e.type = "CDOError" THEN "Error: " ELSE "Unexpected error: "

\* which except clause of main catches e (the clauses are tried in order)
Handler(e) ==
    IF e.type = "CDOError" THEN "Error: "
    ELSE IF e.type = "RequestException" THEN "Network error: "
    ELSE "Unexpected error: "

\* `if final_status is None: ... else: ...` and the end of main
MainReport ==
    /\ pc = "report"
    /\ IF final_status = None
         THEN stdout' = Append(stdout, <<"Polling timed out">>)
         ELSE stdout' = Append(stdout, <<"Final status: ", final_status[1]>>)
    /\ exit_code' = NormalExit
    /\ pc' = "exited"
    /\ UNCHANGED <<args, posts, ack, response, polling_url, exc>>
    /\ UNCHANGED pollVars
    /\ UNCHANGED svc

\* `except CDOError as e`
ExceptCDOError ==
    /\ pc = "except"
    /\ Handler(exc[1]) = "Error: "
    /\ stdout' = Append(stdout, <<"Error: ", exc[1]>>)
    /\ exit_code' = ErrorExit
    /\ pc' = "exited"
    /\ UNCHANGED <<args, posts, ack, response, polling_url, exc>>
    /\ UNCHANGED pollVars
    /\ UNCHANGED svc

\* `except requests.exceptions.RequestException as e`
ExceptRequestException ==
    /\ pc = "except"
    /\ Handler(exc[1]) = "Network error: "
    /\ stdout' = Append(stdout, <<"Network error: ", exc[1]>>)
    /\ exit_code' = ErrorExit
    /\ pc' = "exited"
    /\ UNCHANGED <<args, posts, ack, response, polling_url, exc>>
    /\ UNCHANGED pollVars
    /\ UNCHANGED svc

\* `except Exception as e`
ExceptException ==
    /\ pc = "except"
    /\ Handler(exc[1]) = "Unexpected error: "
    /\ stdout' = Append(stdout, <<"Unexpected error: ", exc[1]>>)
    /\ exit_code' = ErrorExit
    /\ pc' = "exited"
    /\ UNCHANGED <<args, posts, ack, response, polling_url, exc>>
    /\ UNCHANGED pollVars
    /\ UNCHANGED svc

(* ---------------- specification ---------------- *)

Next ==
    \/ MainNoOperation
    \/ initiate_ftd_onboarding_using_ztp
    \/ delete_ftd_device
    \/ ExtractPollingUrl
    \/ PollGet
    \/ PollTimeout
    \/ PollCheck
    \/ PollSleep
    \/ MainReport
    \/ ExceptCDOError
    \/ ExceptRequestException
    \/ ExceptException

Spec == Init /\ [][Next]_vars

(* ---------------- poll_service.py: the second Status Poller ---------------- *)

\* poll_service.py's `headers`
SvcHeaders(token) ==
    [Authorization |-> <<"Bearer ", token>>, ContentType |-> "application/json"]

\* poll_service.py's poll_transaction_status is called with the arguments
\* main called ftd.py's with, once that run is over, and is answered with the
\* same responses
SvcCall ==
    /\ svc.pc = "idle"
    /\ pc = "exited"
    /\ headers # None
    /\ svc' = [svc EXCEPT !.pc = "for",
                          !.polling_url = polling_url,
                          !.headers = Some(SvcHeaders(args.token)),
                          !.max_attempts = args.max_attempts,
                          !.delay_seconds = args.delay]
    /\ UNCHANGED <<args, pc, posts, ack, response, polling_url, max_attempts,
                   delay_seconds, headers, attempt, gets, responses,
                   current_status, sleeps, stdout, exc, poll_outcome,
                   final_status, exit_code>>

\* the loop head and `response = requests.get(polling_url, headers=headers)`;
\* the k-th GET gets the k-th recorded answer, any answer beyond the record
SvcGet ==
    /\ svc.pc = "for"
    /\ svc.attempt < svc.max_attempts
    /\ \E r \in PollResponses :
         /\ Len(svc.gets) < Len(responses) => r = responses[Len(svc.gets) + 1]
         /\ svc' = [svc EXCEPT
                      !.gets = Append(@, [method |-> "GET", url |-> svc.polling_url,
                                          headers |-> svc.headers[1]]),
                      !.responses = Append(@, r),
                      !.exc = IF r = ConnectionFailed THEN Some(RequestException) ELSE @,
                      !.outcome = IF r = ConnectionFailed THEN "raised" ELSE @,
                      !.pc = IF r = ConnectionFailed THEN "done" ELSE "check"]
    /\ UNCHANGED <<args, pc, posts, ack, response, polling_url, max_attempts,
                   delay_seconds, headers, attempt, gets, responses,
                   current_status, sleeps, stdout, exc, poll_outcome,
                   final_status, exit_code>>

\* the loop is exhausted: `return None`
SvcTimeout ==
    /\ svc.pc = "for"
    /\ ~(svc.attempt < svc.max_attempts)
    /\ svc' = [svc EXCEPT !.result = None, !.outcome = "timeout", !.pc = "done"]
    /\ UNCHANGED <<args, pc, posts, ack, response, polling_url, max_attempts,
                   delay_seconds, headers, attempt, gets, responses,
                   current_status, sleeps, stdout, exc, poll_outcome,
                   final_status, exit_code>>

\* the loop body from the status-code check to the terminal decision
SvcCheck ==
    /\ svc.pc = "check"
    /\ LET r == svc.responses[Len(svc.responses)]
           status_data == Json(r.text)
           status == Get(status_data, "cdoTransactionStatus")
           line == <<"Current status: ", status, " (Attempt ", svc.attempt + 1,
                     "/", svc.max_attempts, ")">>
       IN  IF r.status_code \notin {200, 202}
             THEN svc' = [svc EXCEPT
                            !.exc = Some(CDOError("Failed to poll status: ",
                                                  Some(r.text), Some(r.status_code))),
                            !.outcome = "raised",
                            !.pc = "done"]
             ELSE IF status \in {Some("DONE"), Some("ERROR")}
                    THEN svc' = [svc EXCEPT !.stdout = Append(@, line),
                                            !.result = Some(status_data),
                                            !.outcome = "returned",
                                            !.pc = "done"]
                    ELSE svc' = [svc EXCEPT !.stdout = Append(@, line),
                                            !.pc = "sleep"]
    /\ UNCHANGED <<args, pc, posts, ack, response, polling_url, max_attempts,
                   delay_seconds, headers, attempt, gets, responses,
                   current_status, sleeps, stdout, exc, poll_outcome,
                   final_status, exit_code>>

\* `time.sleep(delay_seconds)` and the step to the next element of the range
SvcSleep ==
    /\ svc.pc = "sleep"
    /\ IF svc.delay_seconds < 0
         THEN svc' = [svc EXCEPT
                        !.exc = Some(ValueError("sleep length must be non-negative")),
                        !.outcome = "raised",
                        !.pc = "done"]
         ELSE svc' = [svc EXCEPT !.sleeps = Append(@, svc.delay_seconds),
                                 !.attempt = @ + 1,
                                 !.pc = "for"]
    /\ UNCHANGED <<args, pc, posts, ack, response, polling_url, max_attempts,
                   delay_seconds, headers, attempt, gets, responses,
                   current_status, sleeps, stdout, exc, poll_outcome,
                   final_status, exit_code>>

\* a run of main followed by a run of poll_service.py's poller on the same
\* arguments and responses
EquivNext ==
    \/ Next
    \/ SvcCall
    \/ SvcGet
    \/ SvcTimeout
    \/ SvcCheck
    \/ SvcSleep

EquivSpec == Init /\ [][EquivNext]_vars

\* the process is sequential and every call returns: a step that can be
\* taken is taken
FairSpec == Spec /\ WF_vars(Next)

TypeOK ==
    /\ pc \in {"main", "extract", "for", "check", "sleep", "report", "except", "exited"}
    /\ poll_outcome \in {"none", "returned", "timeout", "raised"}
    /\ exit_code \in {-1, 0, 1}
    /\ Len(gets) = Len(responses)

(* ================= properties ================= *)

\* poll_transaction_status has been called
PollCalled == headers # None

\* poll_transaction_status has returned or raised
PollEnded == poll_outcome # "none"

\* r is an answered poll response with code 200 or 202
OkCode(r) == r # ConnectionFailed /\ r.status_code \in {200, 202}

\* the cdoTransactionStatus of an answered poll response, None if absent
StatusOf(r) ==
    IF \E i \in DOMAIN r.text : r.text[i][1] = "cdoTransactionStatus"
      THEN Some(r.text[CHOOSE i \in DOMAIN r.text : r.text[i][1] = "cdoTransactionStatus"][2])
      ELSE None

TerminalStatus(r) == StatusOf(r) \in {<<"DONE">>, <<"ERROR">>}

\* every poll response so far has code 200 or 202 and a non-terminal status
AllNonTerminal ==
    \A i \in 1..Len(responses) : OkCode(responses[i]) /\ ~TerminalStatus(responses[i])

\* the lines poll_transaction_status printed
StatusLines == SelectSeq(stdout, LAMBDA l : l[1] = "Current status: ")

Max0(n) == IF n < 0 THEN 0 ELSE n

\* d is the dict with exactly the fields of the wire text (whose keys are distinct)
IsDictOf(d, text) ==
    /\ DOMAIN d = {text[i][1] : i \in DOMAIN text}
    /\ \A i \in DOMAIN text : d[text[i][1]] = text[i][2]

(* ---- C1 ---- *)

\* C1 as stated: in every state of poll_transaction_status the number of GET
\* requests issued so far is at most max_attempts.
C1_GetsAtMostMaxAttempts == PollCalled => Len(gets) <= max_attempts

\* C1 amended: in every state of poll_transaction_status the number of GET
\* requests issued so far is at most max_attempts, and zero when max_attempts
\* is negative.
C1_GetsAtMostBudget == PollCalled => Len(gets) <= Max0(max_attempts)

\* the whole budget of at least two attempts has been spent
C1_Witness == PollCalled /\ max_attempts >= 2 /\ Len(gets) = max_attempts

(* ---- C2 ---- *)

\* C2 as stated: for max_attempts >= 1, when the first max_attempts poll
\* responses all have code 200 or 202 and a non-terminal status, Poll issues
\* exactly max_attempts GETs and returns None.
C2_TimeoutAfterBudget ==
    (PollEnded /\ max_attempts >= 1 /\ AllNonTerminal)
       => /\ poll_outcome = "timeout"
          /\ Len(gets) = max_attempts
          /\ final_status = None
          /\ exc = None

\* C2 amended: the same, for max_attempts >= 1 and delay_seconds >= 0.
C2_TimeoutAfterBudgetNonNegDelay ==
    (PollEnded /\ max_attempts >= 1 /\ delay_seconds >= 0 /\ AllNonTerminal)
       => /\ poll_outcome = "timeout"
          /\ Len(gets) = max_attempts
          /\ final_status = None
          /\ exc = None

\* a budget of at least two attempts ran out on non-terminal answers, one of
\* them with code 202
C2_Witness ==
    /\ poll_outcome = "timeout"
    /\ max_attempts >= 2
    /\ Len(gets) = max_attempts
    /\ AllNonTerminal
    /\ \E i \in 1..Len(responses) : responses[i].status_code = 202

(* ---- C3 ---- *)

\* C3: when max_attempts >= 1 non-terminal answers exhaust the budget, Poll
\* has observed exactly max_attempts - 1 delays when it returns None (no
\* delay follows the last attempt).
C3_NoDelayAfterLastAttempt ==
    (poll_outcome = "timeout" /\ max_attempts >= 1 /\ AllNonTerminal)
       => Len(sleeps) = max_attempts - 1

(* ---- C4 ---- *)

\* the run returned the first terminal answer, which is the last one received
ReturnedFirstTerminal ==
    /\ poll_outcome = "returned"
    /\ Len(responses) >= 1
    /\ Len(responses) <= max_attempts
    /\ TerminalStatus(responses[Len(responses)])
    /\ \A i \in 1..(Len(responses) - 1) : ~TerminalStatus(responses[i])
    /\ Len(gets) = Len(responses)
    /\ final_status # None
    /\ IsDictOf(final_status[1], responses[Len(responses)].text)

\* C4 as stated: a run all of whose answers have code 200 or 202 ends at the
\* first answer k whose status is DONE or ERROR, with exactly k GETs and the
\* k-th body as result; it ends otherwise only when max_attempts answers were
\* non-terminal.
C4_ReturnsFirstTerminal ==
    (PollEnded /\ \A i \in 1..Len(responses) : OkCode(responses[i]))
       => \/ ReturnedFirstTerminal
          \/ /\ AllNonTerminal
             /\ Len(responses) >= max_attempts

\* C4 amended: the same, for delay_seconds >= 0.
C4_ReturnsFirstTerminalNonNegDelay ==
    (PollEnded /\ delay_seconds >= 0 /\ \A i \in 1..Len(responses) : OkCode(responses[i]))
       => \/ ReturnedFirstTerminal
          \/ /\ AllNonTerminal
             /\ Len(responses) >= max_attempts

\* [RUNNING, RUNNING, DONE]: three GETs and the third body returned
C4_WitnessDone ==
    /\ poll_outcome = "returned"
    /\ Len(gets) = 3
    /\ StatusOf(responses[1]) = <<"RUNNING">>
    /\ StatusOf(responses[2]) = <<"RUNNING">>
    /\ final_status = <<[transactionUid |-> "tx1", cdoTransactionStatus |-> "DONE"]>>

(* ---- C5 ---- *)

\* C5: every delay has length delay_seconds; when the answer to the i-th GET
\* is examined exactly i - 1 delays have passed; no delay follows an answer
\* with code 200 or 202 and status DONE or ERROR, so a run that returns at
\* attempt k has had exactly k - 1 delays.
C5_OneDelayBetweenAttempts ==
    /\ \A i \in 1..Len(sleeps) : sleeps[i] = delay_seconds
    /\ pc = "check" => Len(sleeps) = Len(gets) - 1
    /\ \A i \in 1..Len(responses) :
          (OkCode(responses[i]) /\ TerminalStatus(responses[i])) => Len(sleeps) <= i - 1
    /\ poll_outcome = "returned" => Len(sleeps) = Len(gets) - 1

\* [RUNNING, RUNNING, ERROR] with a positive delay: returned after two delays
C5_Witness ==
    /\ poll_outcome = "returned"
    /\ delay_seconds > 0
    /\ Len(gets) = 3
    /\ Len(sleeps) = 2
    /\ StatusOf(responses[3]) = <<"ERROR">>

(* ---- C6 ---- *)

\* r is an answered poll response with a code other than 200 and 202
BadCode(r) == r # ConnectionFailed /\ r.status_code \notin {200, 202}

\* C6: a poll answer with a code other than 200 and 202 is the last GET of the
\* run and no delay follows it; once examined, Poll has raised a CDOError
\* carrying its body and code, without a status line for it (its status is
\* not read) and without a result.
C6_BadCodeRaisesImmediately ==
    \A i \in 1..Len(responses) :
       BadCode(responses[i]) =>
          /\ i = Len(responses)
          /\ Len(gets) = i
          /\ Len(sleeps) = i - 1
          /\ Len(StatusLines) = i - 1
          /\ pc # "check" =>
                /\ poll_outcome = "raised"
                /\ final_status = None
                /\ exc # None
                /\ exc[1].type = "CDOError"
                /\ exc[1].text = <<responses[i].text>>
                /\ exc[1].code = <<responses[i].status_code>>

\* the second answer has code 500 and says DONE: the run ended in the error exit
C6_Witness ==
    /\ pc = "exited"
    /\ Len(responses) = 2
    /\ BadCode(responses[2])
    /\ StatusOf(responses[2]) = <<"DONE">>
    /\ exit_code = 1

(* ---- C7 ---- *)

\* C7: an acknowledgement with a code other than 202 makes the operation raise
\* a CDOError containing the response text and return nothing, and no GET
\* follows; an acknowledgement with code 202 makes it return the parsed body.
C7_SubmissionError ==
    ack # None =>
       IF ack[1].status_code # 202
         THEN /\ response = None
              /\ exc # None
              /\ exc[1].type = "CDOError"
              /\ exc[1].text = <<ack[1].text>>
              /\ gets = <<>>
              /\ pc \in {"except", "exited"}
         ELSE /\ response # None
              /\ IsDictOf(response[1], ack[1].text)

\* a deletion acknowledged with 200 ended in the error exit without a GET
C7_Witness ==
    /\ pc = "exited"
    /\ args.operation = <<"delete">>
    /\ ack # None
    /\ ack[1].status_code = 200
    /\ exit_code = 1

(* ---- C8 ---- *)

\* the acknowledgement body has a transactionPollingUrl field
AckHasUrl == \E i \in DOMAIN ack[1].text : ack[1].text[i][1] = "transactionPollingUrl"

\* C8: a GET is issued only after a 202 acknowledgement whose body has a
\* transactionPollingUrl; after a 202 acknowledgement without it the
\* extraction raises, no GET is ever issued and the process exits with 1.
C8_NoPollWithoutUrl ==
    /\ gets # <<>> => (ack # None /\ ack[1].status_code = 202 /\ AckHasUrl)
    /\ (ack # None /\ ack[1].status_code = 202 /\ ~AckHasUrl) =>
          /\ gets = <<>>
          /\ ~PollCalled
          /\ pc \in {"except", "exited"} => (exc # None /\ exc[1].type = "CDOError")
          /\ pc = "exited" => exit_code = 1

\* a 202 acknowledgement without the field ended in the error exit
C8_Witness ==
    /\ pc = "exited"
    /\ ack # None
    /\ ack[1].status_code = 202
    /\ ~AckHasUrl
    /\ exit_code = 1
    /\ gets = <<>>

(* ---- C9 ---- *)

\* the run ended in an error: no operation given, or an exception reached main
EndedInError == args.operation = None \/ exc # None

\* C9: a finished run has exit code 1 when it ended in an error (a CDOError
\* of the submission, the missing polling URL or the polling, a
\* RequestException, any other exception, no operation) and 0 otherwise; a
\* run whose polling timed out prints the timeout and exits with 0.
C9_ExitCode ==
    pc = "exited" =>
       /\ exit_code = (IF EndedInError THEN 1 ELSE 0)
       /\ poll_outcome = "timeout" =>
             /\ exit_code = 0
             /\ stdout[Len(stdout)] = <<"Polling timed out">>

\* a run that used its whole budget of GETs timed out and exited with 0
C9_WitnessTimeout ==
    /\ pc = "exited"
    /\ poll_outcome = "timeout"
    /\ Len(gets) >= 2
    /\ exit_code = 0

(* ---- C10 ---- *)

\* C10: Poll ends in exactly one of three outcomes that the caller can tell
\* apart: a returned body whose status is DONE or ERROR (final_status is a
\* dict, nothing raised), the returned None (final_status is None, nothing
\* raised), or a raised exception (nothing returned); an examined answer with
\* code 200 or 202 and status ERROR is always returned, never raised and
\* never a timeout.
C10_ThreeOutcomes ==
    /\ poll_outcome = "returned" =>
          /\ final_status # None
          /\ Get(final_status[1], "cdoTransactionStatus") \in {<<"DONE">>, <<"ERROR">>}
          /\ exc = None
    /\ poll_outcome = "timeout" => (final_status = None /\ exc = None)
    /\ poll_outcome = "raised" => (final_status = None /\ exc # None)
    /\ pc \in {"report", "except", "exited"} /\ PollCalled => PollEnded
    /\ \A i \in 1..Len(responses) :
          (OkCode(responses[i]) /\ StatusOf(responses[i]) = <<"ERROR">>
              /\ (i < Len(responses) \/ pc # "check"))
             => /\ i = Len(responses)
                /\ poll_outcome = "returned"
                /\ Get(final_status[1], "cdoTransactionStatus") = <<"ERROR">>

\* the first answer said ERROR: returned as the result, exit code 0
C10_WitnessError ==
    /\ pc = "exited"
    /\ Len(responses) = 1
    /\ poll_outcome = "returned"
    /\ Get(final_status[1], "cdoTransactionStatus") = <<"ERROR">>
    /\ exc = None

(* ---- C11 ---- *)

\* the i-th poll answer has code 200 or 202, no cdoTransactionStatus field,
\* and has been examined
AbsentStatusExamined(i) ==
    /\ OkCode(responses[i])
    /\ StatusOf(responses[i]) = <<>>
    /\ (i < Len(responses) \/ pc # "check")

\* after the i-th answer Poll delays and goes on: it is in the delay, or has
\* delayed and is at the next attempt or beyond, or has delayed and timed out
\* with the budget exhausted
DelaysAndProceeds(i) ==
    \/ (i = Len(responses) /\ pc = "sleep" /\ Len(sleeps) = i - 1 /\ ~PollEnded)
    \/ (i = Len(responses) /\ pc = "for" /\ Len(sleeps) = i /\ ~PollEnded)
    \/ (i < Len(responses) /\ Len(sleeps) >= i)
    \/ (i = Len(responses) /\ i = max_attempts /\ Len(sleeps) = i
           /\ poll_outcome = "timeout" /\ final_status = <<>> /\ exc = <<>>)

\* C11 as stated: on an answer with code 200 or 202 and no
\* cdoTransactionStatus field Poll neither raises nor returns; it delays and
\* proceeds to the next attempt, or times out when the budget is exhausted.
C11_AbsentStatusNonTerminal ==
    \A i \in 1..Len(responses) : AbsentStatusExamined(i) => DelaysAndProceeds(i)

\* C11 amended: the same, for delay_seconds >= 0.
C11_AbsentStatusNonTerminalNonNegDelay ==
    delay_seconds >= 0 =>
       \A i \in 1..Len(responses) : AbsentStatusExamined(i) => DelaysAndProceeds(i)

\* two answers without a status field, the first followed by a second GET and
\* the second by the timeout
C11_Witness ==
    /\ pc = "exited"
    /\ max_attempts = 2
    /\ Len(responses) = 2
    /\ AbsentStatusExamined(1)
    /\ AbsentStatusExamined(2)
    /\ poll_outcome = "timeout"

(* ---- C12 ---- *)

\* the transactionPollingUrl of the acknowledgement, None if absent
AckUrl ==
    IF AckHasUrl
      THEN <<ack[1].text[CHOOSE i \in DOMAIN ack[1].text :
                            ack[1].text[i][1] = "transactionPollingUrl"][2]>>
      ELSE <<>>

\* C12: every GET of a run goes to the status-check location Poll was called
\* with and carries the token Poll was called with, whatever the answers
\* contain (an answer naming another polling URL included).
C12_SameLocationEveryAttempt ==
    \A i \in 1..Len(gets) :
       /\ gets[i].method = "GET"
       /\ gets[i].url = AckUrl
       /\ gets[i].url = polling_url
       /\ gets[i].headers.Authorization = <<"Bearer ", args.token>>
       /\ gets[i].headers.ContentType = "application/json"
       /\ gets[i] = gets[1]

\* three GETs, the first answered with a body that names another polling URL
C12_Witness ==
    /\ Len(gets) = 3
    /\ OkCode(responses[1])
    /\ \E j \in DOMAIN responses[1].text : responses[1].text[j][1] = "transactionPollingUrl"
    /\ gets[3].url = <<"https://x/status/2">>

(* ---- C13 ---- *)

\* the POST that was sent is the one of the requested operation
PostOfOperation ==
    /\ posts[1].method = "POST"
    /\ args.operation = <<"onboard">> =>
          posts[1].url = <<args.url, "/api/rest/v1/inventory/devices/ftds/ztp">>
    /\ args.operation = <<"delete">> =>
          posts[1].url = <<args.url, "/api/rest/v1/inventory/devices/ftds/cdfmcManaged/",
                           args.device_uuid, "/delete">>

\* at most one POST, of the requested operation; no GET when the Action
\* Invoker returns or raises
OnePostNoGet ==
    /\ Len(posts) <= 1
    /\ posts # <<>> => PostOfOperation
    /\ pc = "extract" => (Len(posts) = 1 /\ gets = <<>>)
    /\ (pc = "except" /\ ~PollCalled) => gets = <<>>
    /\ gets # <<>> => Len(posts) = 1
    /\ \A i \in 1..Len(gets) : gets[i].method = "GET"

\* C13 as stated: every process run sends exactly one POST, of one operation,
\* the Action Invoker issues no GET, and the POST is never sent again.
C13_ExactlyOnePost ==
    /\ OnePostNoGet
    /\ pc = "exited" => Len(posts) = 1

\* C13 amended: the same for every process run that names an operation; a
\* run without a subcommand sends no POST at all.
C13_ExactlyOnePostWhenOperation ==
    /\ OnePostNoGet
    /\ (pc = "exited" /\ args.operation # <<>>) => Len(posts) = 1
    /\ (pc = "exited" /\ args.operation = <<>>) => posts = <<>>

\* a deletion whose polling failed at the second GET: still one POST
C13_Witness ==
    /\ pc = "exited"
    /\ args.operation = <<"delete">>
    /\ Len(gets) = 2
    /\ poll_outcome = "raised"
    /\ Len(posts) = 1

(* ---- C14 ---- *)

\* a requests call raised
TransportFailed == exc # <<>> /\ exc[1].type = "RequestException"

\* C14: a connection failure of the POST or of any GET ends the run: no
\* request and no delay follows it, nothing is returned, it is reported with
\* the "Network error" line (not the "Error" line of a CDOError) and the
\* process exits with 1.
C14_TransportErrorFatal ==
    /\ \A i \in 1..Len(responses) :
          responses[i] = [raised |-> "RequestException"] =>
             /\ i = Len(responses)
             /\ Len(gets) = i
             /\ Len(sleeps) = i - 1
             /\ Len(posts) = 1
             /\ TransportFailed
             /\ poll_outcome = "raised"
             /\ final_status = <<>>
    /\ (posts # <<>> /\ ack = <<>>) =>
          /\ TransportFailed
          /\ Len(posts) = 1
          /\ gets = <<>>
          /\ sleeps = <<>>
          /\ response = <<>>
    /\ TransportFailed =>
          /\ pc \in {"except", "exited"}
          /\ pc = "exited" =>
                /\ exit_code = 1
                /\ stdout[Len(stdout)][1] = "Network error: "
                /\ \A j \in 1..Len(stdout) : stdout[j][1] # "Error: "

\* the third GET failed to connect after two delays: network error, exit 1
C14_WitnessGet ==
    /\ pc = "exited"
    /\ Len(responses) = 3
    /\ responses[3] = [raised |-> "RequestException"]
    /\ Len(sleeps) = 2
    /\ exit_code = 1

(* ---- C15 ---- *)

\* C15: the onboarding POST body is exactly {name, serialNumber,
\* fmcAccessPolicyUid, licenses: ["BASE"], adminPassword} of the arguments,
\* an empty admin password included; after a 202 acknowledgement the
\* location handed to the poller, and polled, is the acknowledgement's
\* transactionPollingUrl value itself.
C15_PayloadAndLocation ==
    /\ (args.operation = <<"onboard">> /\ posts # <<>>) =>
          /\ posts[1].json = << [name |-> args.device_name,
                                 serialNumber |-> args.serial_number,
                                 fmcAccessPolicyUid |-> args.policy_uuid,
                                 licenses |-> <<"BASE">>,
                                 adminPassword |-> args.admin_password] >>
          /\ args.admin_password = "" =>
                posts[1].json = << [name |-> "fw1",
                                    serialNumber |-> "ABC123",
                                    fmcAccessPolicyUid |-> "pol-1",
                                    licenses |-> <<"BASE">>,
                                    adminPassword |-> ""] >>
    /\ (args.operation = <<"onboard">> /\ PollCalled) =>
          /\ ack[1].status_code = 202
          /\ polling_url = AckUrl
          /\ \A i \in 1..Len(gets) : gets[i].url = AckUrl

\* the scenario: empty admin password, 202 with https://x/status/1, one GET
C15_Witness ==
    /\ args.operation = <<"onboard">>
    /\ args.admin_password = ""
    /\ ack # <<>>
    /\ ack[1].status_code = 202
    /\ polling_url = <<"https://x/status/1">>
    /\ Len(gets) = 1
    /\ gets[1].url = <<"https://x/status/1">>

(* ---- C16 ---- *)

\* C16 as stated: once called, Poll ends (returns a result, returns None or
\* raises), and it never starts more than max_attempts loop iterations.
C16_Terminates ==
    /\ PollCalled ~> PollEnded
    /\ [](PollCalled => (attempt <= max_attempts /\ Len(responses) <= max_attempts))

\* C16 amended: once called, Poll ends, and it never starts more than
\* max_attempts loop iterations, none when max_attempts is negative.
C16_TerminatesWithinBudget ==
    /\ PollCalled ~> PollEnded
    /\ [](PollCalled => (attempt <= Max0(max_attempts) /\ Len(responses) <= Max0(max_attempts)))

\* Poll ended after starting all of its three or more iterations
C16_Witness ==
    /\ PollEnded
    /\ max_attempts >= 3
    /\ Len(responses) = max_attempts

(* ---- C17 ---- *)

\* C17: run on the same arguments and the same responses, the poller of
\* poll_service.py never issues a GET the poller of ftd.py did not issue, and
\* ends with the same GETs, the same delays, the same status lines and the
\* same outcome (the same returned body, None, or the same raised error).
C17_PollersEquivalent ==
    /\ Len(svc.gets) <= Len(gets)
    /\ Len(svc.sleeps) <= Len(sleeps)
    /\ svc.pc = "done" =>
          /\ svc.gets = gets
          /\ svc.responses = responses
          /\ svc.sleeps = sleeps
          /\ svc.stdout = StatusLines
          /\ svc.outcome = poll_outcome
          /\ svc.result = final_status
          /\ svc.exc = exc

\* both pollers returned the third answer after two delays
C17_WitnessReturned ==
    /\ svc.pc = "done"
    /\ svc.outcome = "returned"
    /\ Len(svc.gets) = 3
    /\ Len(svc.sleeps) = 2
    /\ poll_outcome = "returned"

(* ---- C18 ---- *)

\* C18: with max_attempts <= 0 Poll issues no GET and no delay and returns
\* None; the process then prints the timeout and exits with 0, the POST
\* having been sent and acknowledged and the status never queried.
C18_NoAttemptBudget ==
    (PollCalled /\ max_attempts <= 0) =>
       /\ gets = <<>>
       /\ sleeps = <<>>
       /\ exc = <<>>
       /\ Len(StatusLines) = 0
       /\ Len(posts) = 1
       /\ ack[1].status_code = 202
       /\ PollEnded => (poll_outcome = "timeout" /\ final_status = <<>>)
       /\ pc \in {"for", "report", "exited"}
       /\ pc = "exited" =>
             /\ exit_code = 0
             /\ stdout[Len(stdout)] = <<"Polling timed out">>

\* a deletion with --max-attempts -1 ended: timeout reported, exit code 0
C18_WitnessNegative ==
    /\ pc = "exited"
    /\ args.operation = <<"delete">>
    /\ PollCalled
    /\ max_attempts = -1
    /\ gets = <<>>
    /\ exit_code = 0

(* ---- C19 ---- *)

\* C19: a run whose polling returned a body with status ERROR ends like one
\* with status DONE: its last line is the final status and its exit code is 0.
C19_RemoteErrorExitsZero ==
    (pc = "exited" /\ poll_outcome = "returned") =>
       /\ final_status # <<>>
       /\ final_status[1].cdoTransactionStatus \in {"DONE", "ERROR"}
       /\ stdout[Len(stdout)] = <<"Final status: ", final_status[1]>>
       /\ exit_code = 0
       /\ exc = <<>>

\* the second answer said ERROR: final status printed, exit code 0
C19_WitnessError ==
    /\ pc = "exited"
    /\ poll_outcome = "returned"
    /\ Len(responses) = 2
    /\ final_status[1].cdoTransactionStatus = "ERROR"
    /\ exit_code = 0

(* ---- C20 ---- *)

\* the number of poll answers that were examined and had code 200 or 202
ExaminedOk ==
    Cardinality({i \in 1..Len(responses) :
                    OkCode(responses[i]) /\ (i < Len(responses) \/ pc # "check")})

\* C20: Poll prints one status line per examined answer with code 200 or 202
\* and none for another answer; the line of the i-th GET carries the status
\* of the i-th answer, the index i and max_attempts, so the indices of a run
\* are 1, 2, ..., n with n <= max_attempts; the line is printed for a
\* terminal answer too.
C20_OneRecordPerAttempt ==
    /\ Len(StatusLines) = ExaminedOk
    /\ Len(StatusLines) <= Len(responses)
    /\ \A i \in 1..Len(StatusLines) :
          /\ OkCode(responses[i])
          /\ StatusLines[i] = <<"Current status: ", StatusOf(responses[i]),
                                " (Attempt ", i, "/", max_attempts, ")">>
          /\ i <= max_attempts
    /\ poll_outcome = "returned" => Len(StatusLines) = Len(responses)

\* two status lines, then a third answer with a fatal code: no third line
C20_Witness ==
    /\ pc = "exited"
    /\ Len(responses) = 3
    /\ responses[3] # [raised |-> "RequestException"]
    /\ responses[3].status_code = 500
    /\ Len(StatusLines) = 2
    /\ StatusLines[2][4] = 2

====
